---------------------------- MODULE Spec2Model ----------------------------
(***************************************************************************)
(* Trivia server (src/server.js): rooms, games and the asynchronous        *)
(* request / socket handlers that read and write them.                     *)
(*                                                                         *)
(* The process is a single-threaded event loop.  A handler runs without    *)
(* interruption from one `await` to the next, so every action below is one *)
(* such segment: the store operation the handler was waiting for takes     *)
(* effect, and the synchronous code after it runs up to the next `await`.  *)
(* Handlers of different requests interleave freely at these points; the   *)
(* source has no lock, queue or transaction around them.                   *)
(*                                                                         *)
(* The store is MongoDB through Mongoose 8 (package.json, src/server.js    *)
(* line 503).  These facts about `doc.save()` on a document that was       *)
(* loaded with findOne decide how the handlers interact, and are modelled: *)
(*   - save() sends only the paths modified since the load ($set / $push), *)
(*     never the whole document; a save with nothing modified sends        *)
(*     nothing;                                                            *)
(*   - a $push on a top-level array (room.players) increments the version  *)
(*     key __v and is not conditioned on it;                               *)
(*   - a $set below an array index (players.i.ready, scores.i.score) is    *)
(*     conditioned on __v being the loaded one; a $push below an array     *)
(*     index (scores.i.answers) is conditioned on __v and increments it.   *)
(*     When the condition fails save() rejects with a VersionError, which  *)
(*     the handlers' try/catch logs;                                       *)
(*   - a $set of a top-level scalar (status, currentQuestion, endedAt) is  *)
(*     unconditional and leaves __v alone.                                 *)
(* findOne without a sort returns the first matching document in insertion *)
(* order (documents are never deleted here).                               *)
(*                                                                         *)
(* Fields that no handler ever reads back (player name, question options,  *)
(* createdAt / startedAt) are left out of the documents; endedAt is kept   *)
(* as a flag because only its truthiness is read.                          *)
(***************************************************************************)
EXTENDS Integers, Sequences, FiniteSets, TLC

\* rooms, games: the Room and Game collections, in insertion order
\* handlers:     the running handlers (Handlers -> handler record)
\* sent:         what the step just taken emitted (socket events, responses)
\* last:         the early return the step just taken ended in, if any
\* received:     the submitAnswer events the clients have sent: their number,
\*               or, where every event is sent once, the set of their
\*               (user, question index) pairs
VARIABLES rooms, games, handlers, sent, last, received

vars == <<rooms, games, handlers, sent, last, received>>

---------------------------------------------------------------------------
(* Bounds of the model *)

\* most rooms ever created
MaxRooms == 1
\* most games ever created
MaxGames == 2
\* most questions the store and the external API deliver to one fetch
MaxSupply == 2
\* most questions of the game in the started-game specification
MaxQuestions == 3
\* most submitAnswer events the clients send to a started game
MaxSubmits == 3
\* most submitAnswer events the clients send in a session
MaxSessionSubmits == 2
\* most submitAnswer events the client sends in the scoring specification
MaxTimedSubmits == 2

\* authenticated users (socket.user.uid / req.user.uid)
Users == {"u1", "u2", "u3"}
\* the users that take part in a session
Members == {"u1", "u2"}
\* room codes the generator may produce (it draws from "1000" .. "9999")
Codes == {"1000", "9999"}
\* concurrently running handlers
Handlers == {"h1", "h2"}
\* the (answer, timeTaken in ms) payloads a client may send: a fast "A" and a
\* slow "B"
Submissions == {<<"A", 500>>, <<"B", 11000>>}
\* the payload the members of a session send
SessionSubmissions == {<<"A", 500>>}
\* values of timeTaken (ms) a client may send: the payload is not validated,
\* so negative ones are among them
TimesTaken == {-1500, -1, 0, 500, 9999, 10000, 11000}
\* values of req.body.maxPlayers and req.body.quizCount
MaxPlayersInputs == {1, 2}
QuizCountInputs == {2}
\* the (category, isPublic) a client may create a room with
RoomKinds == {<<"Random", TRUE>>, <<"Science", FALSE>>}

---------------------------------------------------------------------------
(* Small helpers *)

Max(a, b) == IF a >= b THEN a ELSE b

Min(a, b) == IF a <= b THEN a ELSE b

\* the least element of a set of indices, 0 when there is none
\* (Array.prototype.find / findOne: the first match, or nothing)
FirstIdx(S) == IF S = {} THEN 0 ELSE CHOOSE i \in S : \A j \in S : i <= j


---------------------------------------------------------------------------
(* Documents *)

\* the i-th question the question sources deliver; startGame copies text and
\* correctAnswer and sets timeLimit
Question(i) ==
    [text |-> i, correctAnswer |-> IF i % 2 = 1 THEN "A" ELSE "B", timeLimit |-> 15000]

\* what fetchQuestions resolves to when the sources hold `supply` questions:
\* the sampled and the API questions together, cut to `count`
fetchQuestions(count, supply) == [i \in 1..Min(count, supply) |-> Question(i)]

\* a player entry of room.players
NewPlayer(uid) == [id |-> uid, ready |-> FALSE, score |-> 0]

\* new Room({...}) as both room-creating routes build it; __v starts at 0
NewRoom(code, host, category, quizCount, maxPlayers, isPublic) ==
    [code |-> code, host |-> host, category |-> category, quizCount |-> quizCount,
     maxPlayers |-> maxPlayers, players |-> <<NewPlayer(host)>>,
     isPublic |-> isPublic, status |-> "waiting", v |-> 0]

\* new Game({...}) of startGame: one score entry per player of the room
\* document the caller holds
NewGame(room, questions) ==
    [roomCode |-> room.code, questions |-> questions, currentQuestion |-> 0,
     scores |-> [i \in 1..Len(room.players) |->
                    [playerId |-> room.players[i].id, score |-> 0, answers |-> <<>>]],
     endedAt |-> FALSE, v |-> 0]

NoRoom == NewRoom("", "", "", 0, 0, FALSE)

NoGame == NewGame(NoRoom, <<>>)

\* a handler slot: the request it serves, where it is, and the documents it
\* holds in memory (rid / gid: the _id of the loaded room / game, here its
\* position in the collection; dirty: whether the pending save has a
\* modified path to send)
Idle ==
    [kind |-> "none", pc |-> "idle", user |-> "", code |-> "", qi |-> 0,
     answer |-> "", timeTaken |-> 0, isReady |-> FALSE, dirty |-> FALSE,
     rid |-> 0, room |-> NoRoom, gid |-> 0, game |-> NoGame]

\* how the step just taken ended a handler early: the event, its user and
\* question index, and the reason
Return(kind, user, qi, reason) ==
    [kind |-> kind, user |-> user, qi |-> qi, reason |-> reason]

NoReturn == Return("", "", 0, "")

---------------------------------------------------------------------------
(* Store queries *)

\* the slot a newly arriving request runs in: the first free one
FreeHandler ==
    IF handlers["h1"].pc = "idle" THEN "h1"
    ELSE IF handlers["h2"].pc = "idle" THEN "h2"
    ELSE "none"

\* a lookup by code that takes the first room whatever its code
RoomFindOneAny(code) == FirstIdx(DOMAIN rooms)

\* Room.findOne({ code })
RoomFindOne(code) == FirstIdx({i \in DOMAIN rooms : rooms[i].code = code})

\* Game.findOne({ roomCode })
GameFindOne(code) == FirstIdx({i \in DOMAIN games : games[i].roomCode = code})

\* Room.findOne({ isPublic: true, category: 'Random', status: 'waiting',
\*                'players.1': { $exists: false } })
QuickMatchFindOne ==
    FirstIdx({i \in DOMAIN rooms :
                /\ rooms[i].isPublic
                /\ rooms[i].category = "Random"
                /\ rooms[i].status = "waiting"
                /\ Len(rooms[i].players) < 2})

\* a save that is not conditioned on the version key
VersionIgnored(stored, loaded) == TRUE

\* whether a save conditioned on the version key finds its document: the
\* stored __v is still the one that was loaded
VersionMatches(stored, loaded) == stored.v = loaded.v

---------------------------------------------------------------------------
(* submitAnswer *)

\* game.scores.find(s => s.playerId === uid), as a position (0: none)
ScoreIndex(game, uid) ==
    FirstIdx({i \in DOMAIN game.scores : game.scores[i].playerId = uid})

\* a duplicate check that looks at the first answer record only
existingAnswerFirstOnly(playerScore, questionIndex) ==
    /\ Len(playerScore.answers) >= 1
    /\ playerScore.answers[1].questionIndex = questionIndex

\* playerScore.answers.find(a => a.questionIndex === questionIndex)
existingAnswer(playerScore, questionIndex) ==
    \E i \in DOMAIN playerScore.answers :
        playerScore.answers[i].questionIndex = questionIndex

\* the points of a correct answer
ScoreDelta(timeTaken) ==
    LET timeBonus == Max(0, 10 - (timeTaken \div 1000))
    IN  100 + (timeBonus * 10)

\* game.scores.every(score => score.answers.some(a => a.questionIndex === qi))
allAnswered(game, questionIndex) ==
    \A i \in DOMAIN game.scores : existingAnswer(game.scores[i], questionIndex)

\* scores.sort((a, b) => b.score - a.score): stable, descending by score
RECURSIVE SortScores(_)
SortScores(scores) ==
    IF Len(scores) <= 1 THEN scores
    ELSE LET rest == SortScores(Tail(scores))
             x == Head(scores)
             k == Cardinality({i \in DOMAIN rest : rest[i].score > x.score})
         IN  SubSeq(rest, 1, k) \o <<x>> \o SubSeq(rest, k + 1, Len(rest))

QuestionIndexes == 0..MaxQuestions

\* lines 356-376: the event arrives, Game.findOne resolves, the early returns
\* are taken or the answer is pushed onto the loaded document and the score
\* added, and game.save() is issued
SubmitAnswerFind(h, uid, roomCode, questionIndex, answer, timeTaken) ==
    /\ handlers[h].pc = "idle"
    /\ LET gid == GameFindOne(roomCode)
           ignore(o) == /\ last' = IF o = "already answered"
                                    THEN Return("submitAnswer", uid, questionIndex, o)
                                    ELSE NoReturn
                        /\ sent' = <<>>
                        /\ UNCHANGED <<rooms, games, handlers>>
       IN  IF gid = 0 THEN ignore("no game")
           ELSE IF games[gid].endedAt THEN ignore("ended")
           ELSE LET game == games[gid]
                    si == ScoreIndex(game, uid)
                IN  IF si = 0 THEN ignore("no score entry")
                    ELSE IF existingAnswer(game.scores[si], questionIndex)
                         THEN ignore("already answered")
                    ELSE IF questionIndex + 1 \notin DOMAIN game.questions
                         \* question is undefined: reading correctAnswer throws,
                         \* the catch logs it
                         THEN ignore("error")
                    ELSE LET question == game.questions[questionIndex + 1]
                             isCorrect == question.correctAnswer = answer
                             rec == [questionIndex |-> questionIndex, answer |-> answer,
                                     isCorrect |-> isCorrect, timeTaken |-> timeTaken]
                             newScore == IF isCorrect
                                         THEN game.scores[si].score + ScoreDelta(timeTaken)
                                         ELSE game.scores[si].score
                             local == [game EXCEPT
                                         !.scores[si].answers = Append(@, rec),
                                         !.scores[si].score = newScore]
                         IN  /\ handlers' = [handlers EXCEPT ![h] =
                                    [Idle EXCEPT !.kind = "submitAnswer",
                                                 !.pc = "saveAnswer",
                                                 !.user = uid, !.code = roomCode,
                                                 !.qi = questionIndex,
                                                 !.answer = answer,
                                                 !.timeTaken = timeTaken,
                                                 !.gid = gid, !.game = local]]
                             /\ last' = NoReturn
                             /\ sent' = <<>>
                             /\ UNCHANGED <<rooms, games>>

\* the update the first game.save() of submitAnswer sends for the score entry
\* at position si: $push of the new answer record, and $set of the score when
\* the handler changed it; __v is incremented
AnswerDelta(stored, local, si) ==
    LET rec == local.scores[si].answers[Len(local.scores[si].answers)]
    IN  [stored EXCEPT
           !.scores[si].answers = Append(@, rec),
           !.scores[si].score = IF rec.isCorrect THEN local.scores[si].score ELSE @,
           !.v = @ + 1]

\* lines 384-411: the first game.save() resolves or rejects; on success
\* answerReceived is emitted and the barrier is tested on the handler's own
\* document, which then gets currentQuestion++ or endedAt, and is saved again
SubmitAnswerSave(h) ==
    /\ handlers[h].kind = "submitAnswer"
    /\ UNCHANGED received
    /\ handlers[h].pc = "saveAnswer"
    /\ LET hd == handlers[h]
           local == hd.game
           si == ScoreIndex(local, hd.user)
           rec == local.scores[si].answers[Len(local.scores[si].answers)]
       IN  IF ~VersionMatches(games[hd.gid], local)
           THEN \* VersionError, caught and logged
                /\ handlers' = [handlers EXCEPT ![h] = Idle]
                /\ last' = Return("submitAnswer", hd.user, hd.qi, "version error")
                /\ sent' = <<>>
                /\ UNCHANGED <<rooms, games>>
           ELSE /\ games' = [games EXCEPT ![hd.gid] = AnswerDelta(@, local, si)]
                /\ UNCHANGED rooms
                /\ sent' = <<[name |-> "answerReceived", to |-> hd.code,
                              playerId |-> hd.user, questionIndex |-> hd.qi,
                              isCorrect |-> rec.isCorrect]>>
                /\ IF allAnswered(local, hd.qi)
                   THEN IF local.currentQuestion < Len(local.questions) - 1
                        THEN /\ handlers' = [handlers EXCEPT ![h] =
                                    [hd EXCEPT !.pc = "saveNext",
                                               !.game.v = @ + 1,
                                               !.game.currentQuestion = @ + 1]]
                             /\ last' = NoReturn
                        ELSE /\ handlers' = [handlers EXCEPT ![h] =
                                    [hd EXCEPT !.pc = "saveEnd",
                                               !.game.v = @ + 1,
                                               !.game.endedAt = TRUE]]
                             /\ last' = NoReturn
                   ELSE /\ handlers' = [handlers EXCEPT ![h] = Idle]
                        /\ last' = NoReturn

\* lines 402-406: the save of currentQuestion resolves ($set of the value the
\* handler computed); nextQuestion is emitted with the stored question
SubmitAnswerSaveNext(h) ==
    /\ handlers[h].kind = "submitAnswer"
    /\ UNCHANGED received
    /\ handlers[h].pc = "saveNext"
    /\ LET hd == handlers[h]
           local == hd.game
       IN  /\ games' = [games EXCEPT ![hd.gid].currentQuestion = local.currentQuestion]
           /\ sent' = <<[name |-> "nextQuestion", to |-> hd.code,
                         questionIndex |-> local.currentQuestion,
                         question |-> local.questions[local.currentQuestion + 1]]>>
           /\ last' = NoReturn
           /\ handlers' = [handlers EXCEPT ![h] = Idle]
           /\ UNCHANGED rooms

\* lines 409-410: the save of endedAt resolves; Room.findOne is issued
SubmitAnswerSaveEnd(h) ==
    /\ handlers[h].kind = "submitAnswer"
    /\ UNCHANGED received
    /\ handlers[h].pc = "saveEnd"
    /\ LET hd == handlers[h]
       IN  /\ games' = [games EXCEPT ![hd.gid].endedAt = TRUE]
           /\ handlers' = [handlers EXCEPT ![h].pc = "findRoom"]
           /\ last' = NoReturn
           /\ sent' = <<>>
           /\ UNCHANGED rooms

\* the gameEnded event of lines 419-421
GameEnded(code, game) ==
    [name |-> "gameEnded", to |-> code, scores |-> SortScores(game.scores)]

\* lines 413-416: Room.findOne resolves; the room's status is set to
\* completed and room.save() is issued, or with no room gameEnded is emitted
SubmitAnswerFindRoom(h) ==
    /\ handlers[h].kind = "submitAnswer"
    /\ UNCHANGED received
    /\ handlers[h].pc = "findRoom"
    /\ LET hd == handlers[h]
           rid == RoomFindOne(hd.code)
       IN  IF rid = 0
           THEN /\ handlers' = [handlers EXCEPT ![h] = Idle]
                /\ sent' = <<GameEnded(hd.code, hd.game)>>
                /\ last' = NoReturn
                /\ UNCHANGED <<rooms, games>>
           ELSE /\ handlers' = [handlers EXCEPT ![h] =
                       [hd EXCEPT !.pc = "saveRoom", !.rid = rid,
                                  !.dirty = (rooms[rid].status # "completed"),
                                  !.room = [rooms[rid] EXCEPT !.status = "completed"]]]
                /\ sent' = <<>>
                /\ last' = NoReturn
                /\ UNCHANGED <<rooms, games>>

\* lines 416-421: room.save() resolves ($set of status when it was changed);
\* gameEnded is emitted with the scores sorted
SubmitAnswerSaveRoom(h) ==
    /\ handlers[h].kind = "submitAnswer"
    /\ UNCHANGED received
    /\ handlers[h].pc = "saveRoom"
    /\ LET hd == handlers[h]
       IN  /\ rooms' = IF hd.dirty
                       THEN [rooms EXCEPT ![hd.rid].status = "completed"]
                       ELSE rooms
           /\ handlers' = [handlers EXCEPT ![h] = Idle]
           /\ sent' = <<GameEnded(hd.code, hd.game)>>
           /\ last' = NoReturn
           /\ UNCHANGED games

\* the socket event with its payload, from any connected user
SubmitAnswer ==
    \E h \in Handlers, uid \in Users, roomCode \in Codes,
       questionIndex \in QuestionIndexes, sub \in Submissions :
        /\ h = FreeHandler
        /\ received < MaxSubmits
        /\ received' = received + 1
        /\ SubmitAnswerFind(h, uid, roomCode, questionIndex, sub[1], sub[2])

\* the same event in a session, whose games have at most MaxSupply questions
SubmitAnswerInSession ==
    \E h \in Handlers, uid \in Members, roomCode \in Codes,
       questionIndex \in 0..MaxSupply, sub \in SessionSubmissions :
        /\ h = FreeHandler
        /\ received < MaxSessionSubmits
        /\ received' = received + 1
        /\ SubmitAnswerFind(h, uid, roomCode, questionIndex, sub[1], sub[2])

\* the same event from the members of a started game, with the one payload
SubmitAnswerByMember ==
    \E h \in Handlers, uid \in Members, roomCode \in Codes,
       questionIndex \in QuestionIndexes, sub \in SessionSubmissions :
        /\ h = FreeHandler
        /\ received < MaxSubmits
        /\ received' = received + 1
        /\ SubmitAnswerFind(h, uid, roomCode, questionIndex, sub[1], sub[2])

\* the same event from the one player u1 of a game, with any timeTaken
SubmitAnswerTimed ==
    \E h \in Handlers, questionIndex \in 0..MaxSupply,
       answer \in {"A", "B"}, timeTaken \in TimesTaken :
        /\ h = FreeHandler
        /\ received < MaxTimedSubmits
        /\ received' = received + 1
        /\ SubmitAnswerFind(h, "u1", "1000", questionIndex, answer, timeTaken)

\* the same event where every player of the game sends one answer for each
\* question index of the game, in any order and only once, and sends the
\* next one after the handler of the one before has finished; handlers of
\* different players overlap
SubmitAnswerOnce ==
    \E h \in Handlers, uid \in Members, questionIndex \in 0..(MaxSupply - 1),
       sub \in SessionSubmissions :
        /\ h = FreeHandler
        /\ \A other \in Handlers : handlers[other].user # uid
        /\ <<uid, questionIndex>> \notin received
        /\ received' = received \cup {<<uid, questionIndex>>}
        /\ SubmitAnswerFind(h, uid, "1000", questionIndex, sub[1], sub[2])

\* whatever a running submitAnswer handler does next
SubmitAnswerStep(h) ==
    \/ SubmitAnswerSave(h)
    \/ SubmitAnswerSaveNext(h)
    \/ SubmitAnswerSaveEnd(h)
    \/ SubmitAnswerFindRoom(h)
    \/ SubmitAnswerSaveRoom(h)

---------------------------------------------------------------------------
(* Rooms: create, join by code, quick match *)

\* a response of an HTTP route: the status and, for a refusal, the error
\* text; the room document a 200 response carries is not spelled out
Response(route, status, error) ==
    [name |-> "response", route |-> route, status |-> status, error |-> error]

\* io.to(room.code).emit('roomUpdated', room); the payload is not spelled out
RoomUpdated(code) == [name |-> "roomUpdated", to |-> code]

\* rooms that exist or are about to be inserted by a running handler
RoomsClaimed ==
    Len(rooms) + Cardinality({h \in Handlers : handlers[h].pc = "saveNew"})

\* room.players.push({ id, name, ready: false, score: 0 }) followed by
\* room.save(): a $push onto the stored array that increments __v
PushPlayer(stored, uid) ==
    [stored EXCEPT !.players = Append(@, NewPlayer(uid)), !.v = @ + 1]

\* lines 166-185, POST /api/rooms: the room is built from the request and
\* inserted, and returned
CreateRoom(uid, code, kind, quizCount, maxPlayers) ==
    /\ RoomsClaimed < MaxRooms
    /\ LET room == NewRoom(code, uid, kind[1], quizCount, maxPlayers, kind[2])
       IN  /\ rooms' = Append(rooms, room)
           /\ sent' = <<Response("create", 200, "")>>
    /\ last' = NoReturn
    /\ UNCHANGED <<games, handlers, received>>

\* lines 205-240, POST /api/rooms/quick-match: the query resolves; with no
\* room found a new one is built, else the caller is pushed onto the loaded
\* room; room.save() is issued
QuickMatchFind(h, uid, code) ==
    /\ h = FreeHandler
    /\ LET rid == QuickMatchFindOne
       IN  IF rid = 0
           THEN /\ RoomsClaimed < MaxRooms
                /\ handlers' = [handlers EXCEPT ![h] =
                       [Idle EXCEPT !.kind = "quickMatch", !.pc = "saveNew",
                                    !.user = uid, !.code = code,
                                    !.room = NewRoom(code, uid, "Random", 5, 2, TRUE)]]
           ELSE /\ handlers' = [handlers EXCEPT ![h] =
                       [Idle EXCEPT !.kind = "quickMatch", !.pc = "saveJoin",
                                    !.user = uid, !.code = rooms[rid].code,
                                    !.rid = rid,
                                    !.room = [rooms[rid] EXCEPT
                                                !.players = Append(@, NewPlayer(uid))]]]
    /\ sent' = <<>>
    /\ last' = NoReturn
    /\ UNCHANGED <<rooms, games, received>>

\* lines 232, 244: the insert of the new quick-match room resolves
QuickMatchSaveNew(h) ==
    /\ handlers[h].kind = "quickMatch"
    /\ handlers[h].pc = "saveNew"
    /\ rooms' = Append(rooms, handlers[h].room)
    /\ sent' = <<Response("quick-match", 200, "")>>
    /\ handlers' = [handlers EXCEPT ![h] = Idle]
    /\ last' = NoReturn
    /\ UNCHANGED <<games, received>>

\* lines 241, 244: the save of the joined quick-match room resolves
QuickMatchSaveJoin(h) ==
    /\ handlers[h].kind = "quickMatch"
    /\ handlers[h].pc = "saveJoin"
    /\ LET hd == handlers[h]
       IN  /\ rooms' = [rooms EXCEPT ![hd.rid] = PushPlayer(@, hd.user)]
           /\ sent' = <<Response("quick-match", 200, "")>>
    /\ handlers' = [handlers EXCEPT ![h] = Idle]
    /\ last' = NoReturn
    /\ UNCHANGED <<games, received>>

\* lines 251-269, POST /api/rooms/:code/join: Room.findOne resolves; the
\* three refusals, or the caller is pushed and room.save() is issued
JoinFind(h, uid, code) ==
    /\ h = FreeHandler
    /\ LET rid == RoomFindOne(code)
           refuse(status, error) ==
               /\ sent' = <<Response("join", status, error)>>
               /\ UNCHANGED handlers
       IN  IF rid = 0 THEN refuse(404, "Room not found")
           ELSE IF Len(rooms[rid].players) >= rooms[rid].maxPlayers
                THEN refuse(400, "Room is full")
           ELSE IF rooms[rid].status # "waiting"
                THEN refuse(400, "Game has already started")
           ELSE /\ handlers' = [handlers EXCEPT ![h] =
                       [Idle EXCEPT !.kind = "join", !.pc = "saveJoin",
                                    !.user = uid, !.code = code, !.rid = rid,
                                    !.room = [rooms[rid] EXCEPT
                                                !.players = Append(@, NewPlayer(uid))]]]
                /\ sent' = <<>>
    /\ last' = NoReturn
    /\ UNCHANGED <<rooms, games, received>>

\* lines 269-271: room.save() resolves; roomUpdated goes to the room and the
\* room is returned
JoinSave(h) ==
    /\ handlers[h].kind = "join"
    /\ handlers[h].pc = "saveJoin"
    /\ LET hd == handlers[h]
       IN  /\ rooms' = [rooms EXCEPT ![hd.rid] = PushPlayer(@, hd.user)]
           /\ sent' = <<RoomUpdated(hd.room.code), Response("join", 200, "")>>
    /\ handlers' = [handlers EXCEPT ![h] = Idle]
    /\ last' = NoReturn
    /\ UNCHANGED <<games, received>>

---------------------------------------------------------------------------
(* playerReady, startGame *)

\* room.players.find(p => p.id === uid), as a position (0: none)
PlayerIndex(room, uid) ==
    FirstIdx({i \in DOMAIN room.players : room.players[i].id = uid})

\* room.players.every(p => p.ready) && room.players.length >= 1
allReady(room) ==
    /\ \A i \in DOMAIN room.players : room.players[i].ready
    /\ Len(room.players) >= 1

\* games that exist or may be inserted by a running handler: one that is in
\* startGame, or a playerReady that will call it once its save resolves
GamesClaimed ==
    Len(games)
    + Cardinality({h \in Handlers :
                     \/ handlers[h].pc = "startGame"
                     \/ /\ handlers[h].pc = "saveReady"
                        /\ allReady(handlers[h].room)
                        /\ Len(handlers[h].room.players) = 1})

\* lines 318-326: the event arrives, Room.findOne resolves, the caller's
\* player entry gets ready = isReady and room.save() is issued
PlayerReadyFind(h, uid, roomCode, isReady) ==
    /\ h = FreeHandler
    /\ LET rid == RoomFindOne(roomCode)
       IN  IF rid = 0 \/ PlayerIndex(rooms[rid], uid) = 0
           THEN UNCHANGED handlers
           ELSE LET pi == PlayerIndex(rooms[rid], uid)
                    room == [rooms[rid] EXCEPT !.players[pi].ready = isReady]
                IN  /\ (allReady(room) /\ Len(room.players) = 1)
                          => GamesClaimed < MaxGames
                    /\ handlers' = [handlers EXCEPT ![h] =
                          [Idle EXCEPT !.kind = "playerReady", !.pc = "saveReady",
                                       !.user = uid, !.code = roomCode,
                                       !.isReady = isReady, !.rid = rid,
                                       !.dirty = (rooms[rid].players[pi].ready # isReady),
                                       !.room = room]]
    /\ sent' = <<>>
    /\ last' = NoReturn
    /\ UNCHANGED <<rooms, games, received>>

\* lines 326-338: room.save() resolves (a $set of players.i.ready conditioned
\* on __v, when ready was changed) or rejects; on success roomUpdated is
\* emitted and, with every player of the loaded room ready, a one-player
\* room goes into startGame(room) and a larger one signals its host
PlayerReadySave(h) ==
    /\ handlers[h].kind = "playerReady"
    /\ handlers[h].pc = "saveReady"
    /\ LET hd == handlers[h]
           room == hd.room
           pi == PlayerIndex(room, hd.user)
           updated == RoomUpdated(hd.code)
       IN  IF hd.dirty /\ ~VersionMatches(rooms[hd.rid], room)
           THEN \* VersionError, caught and logged
                /\ handlers' = [handlers EXCEPT ![h] = Idle]
                /\ sent' = <<>>
                /\ last' = Return("playerReady", hd.user, 0, "version error")
                /\ UNCHANGED rooms
           ELSE /\ rooms' = IF hd.dirty
                            THEN [rooms EXCEPT ![hd.rid].players[pi].ready = hd.isReady]
                            ELSE rooms
                /\ last' = NoReturn
                /\ IF allReady(room)
                   THEN IF Len(room.players) = 1
                        THEN /\ handlers' = [handlers EXCEPT ![h].pc = "startGame",
                                                             ![h].dirty = FALSE]
                             /\ sent' = <<updated>>
                        ELSE /\ handlers' = [handlers EXCEPT ![h] = Idle]
                             /\ sent' = <<updated,
                                          [name |-> "canStartGame", to |-> room.host]>>
                   ELSE /\ handlers' = [handlers EXCEPT ![h] = Idle]
                        /\ sent' = <<updated>>
    /\ UNCHANGED <<games, received>>

\* lines 345-350: the event arrives, Room.findOne resolves, and the host of
\* a waiting room goes into startGame(room)
StartGameFind(h, uid, roomCode) ==
    /\ h = FreeHandler
    /\ LET rid == RoomFindOne(roomCode)
       IN  IF rid # 0 /\ rooms[rid].host = uid /\ rooms[rid].status = "waiting"
           THEN /\ GamesClaimed < MaxGames
                /\ handlers' = [handlers EXCEPT ![h] =
                       [Idle EXCEPT !.kind = "startGame", !.pc = "startGame",
                                    !.user = uid, !.code = roomCode, !.rid = rid,
                                    !.room = rooms[rid]]]
           ELSE UNCHANGED handlers
    /\ sent' = <<>>
    /\ last' = NoReturn
    /\ UNCHANGED <<rooms, games, received>>

\* lines 435-462, startGame(room): fetchQuestions resolved with what the
\* sources hold and the insert of the new game resolves; the held room gets
\* status in-progress and room.save() is issued
StartGameInsert(h, supply) ==
    /\ handlers[h].pc = "startGame"
    /\ LET hd == handlers[h]
           game == NewGame(hd.room, fetchQuestions(hd.room.quizCount, supply))
       IN  /\ games' = Append(games, game)
           /\ handlers' = [handlers EXCEPT ![h] =
                  [hd EXCEPT !.pc = "saveStatus", !.gid = Len(games) + 1,
                             !.game = game,
                             !.dirty = (hd.room.status # "in-progress"),
                             !.room.status = "in-progress"]]
    /\ sent' = <<>>
    /\ last' = NoReturn
    /\ UNCHANGED <<rooms, received>>

\* lines 135-137, 471-474: fetchQuestions rejected (the store or the API
\* failed); gameError goes to the room
StartGameFail(h) ==
    /\ handlers[h].pc = "startGame"
    /\ handlers' = [handlers EXCEPT ![h] = Idle]
    /\ sent' = <<[name |-> "gameError", to |-> handlers[h].room.code,
                  message |-> "Failed to start game"]>>
    /\ last' = NoReturn
    /\ UNCHANGED <<rooms, games, received>>

\* game.questions[i] for a 0-based i, as the emitted payload carries it
QuestionAt(game, i) ==
    IF i + 1 \in DOMAIN game.questions THEN game.questions[i + 1]
    ELSE [undefined |-> TRUE]

\* lines 463-470: room.save() resolves ($set of status when it was changed);
\* gameStarted goes to the room
StartGameSaveStatus(h) ==
    /\ handlers[h].pc = "saveStatus"
    /\ LET hd == handlers[h]
       IN  /\ rooms' = IF hd.dirty
                       THEN [rooms EXCEPT ![hd.rid].status = "in-progress"]
                       ELSE rooms
           /\ sent' = <<[name |-> "gameStarted", to |-> hd.room.code,
                         questionIndex |-> 0,
                         question |-> QuestionAt(hd.game, 0),
                         totalQuestions |-> Len(hd.game.questions)]>>
    /\ handlers' = [handlers EXCEPT ![h] = Idle]
    /\ last' = NoReturn
    /\ UNCHANGED <<games, received>>

---------------------------------------------------------------------------
(* The server *)

Init ==
    /\ rooms = <<>>
    /\ games = <<>>
    /\ handlers = [h \in Handlers |-> Idle]
    /\ sent = <<>>
    /\ last = NoReturn
    /\ received = 0

Next ==
    \/ \E uid \in Users, code \in Codes, kind \in RoomKinds,
          quizCount \in QuizCountInputs, maxPlayers \in MaxPlayersInputs :
          CreateRoom(uid, code, kind, quizCount, maxPlayers)
    \/ \E h \in Handlers, uid \in Users, code \in Codes : QuickMatchFind(h, uid, code)
    \/ \E h \in Handlers : QuickMatchSaveNew(h)
    \/ \E h \in Handlers : QuickMatchSaveJoin(h)
    \/ \E h \in Handlers, uid \in Users, code \in Codes : JoinFind(h, uid, code)
    \/ \E h \in Handlers : JoinSave(h)
    \/ \E h \in Handlers, uid \in Users, code \in Codes, isReady \in BOOLEAN :
          PlayerReadyFind(h, uid, code, isReady)
    \/ \E h \in Handlers : PlayerReadySave(h)
    \/ \E h \in Handlers, uid \in Users, code \in Codes : StartGameFind(h, uid, code)
    \/ \E h \in Handlers, supply \in 0..MaxSupply : StartGameInsert(h, supply)
    \/ \E h \in Handlers : StartGameFail(h)
    \/ \E h \in Handlers : StartGameSaveStatus(h)
    \/ SubmitAnswer
    \/ \E h \in Handlers : SubmitAnswerSave(h)
    \/ \E h \in Handlers : SubmitAnswerSaveNext(h)
    \/ \E h \in Handlers : SubmitAnswerSaveEnd(h)
    \/ \E h \in Handlers : SubmitAnswerFindRoom(h)
    \/ \E h \in Handlers : SubmitAnswerSaveRoom(h)

Spec == Init /\ [][Next]_vars

---------------------------------------------------------------------------
(* The lobby: the three room routes alone, from the empty store *)

NextLobby ==
    \/ \E uid \in Users, code \in Codes, kind \in RoomKinds,
          quizCount \in QuizCountInputs, maxPlayers \in MaxPlayersInputs :
          CreateRoom(uid, code, kind, quizCount, maxPlayers)
    \/ \E h \in Handlers, uid \in Users, code \in Codes : QuickMatchFind(h, uid, code)
    \/ \E h \in Handlers : QuickMatchSaveNew(h)
    \/ \E h \in Handlers : QuickMatchSaveJoin(h)
    \/ \E h \in Handlers, uid \in Users, code \in Codes : JoinFind(h, uid, code)
    \/ \E h \in Handlers : JoinSave(h)

SpecLobby == Init /\ [][NextLobby]_vars

\* room creation and quick match alone: every player after a room's first
\* was added by a quick match
NextMatch ==
    \/ \E uid \in Users, code \in Codes, kind \in RoomKinds,
          quizCount \in QuizCountInputs, maxPlayers \in MaxPlayersInputs :
          CreateRoom(uid, code, kind, quizCount, maxPlayers)
    \/ \E h \in Handlers, uid \in Users, code \in Codes : QuickMatchFind(h, uid, code)
    \/ \E h \in Handlers : QuickMatchSaveNew(h)
    \/ \E h \in Handlers : QuickMatchSaveJoin(h)

SpecMatch == Init /\ [][NextMatch]_vars

---------------------------------------------------------------------------
(* A session: a waiting room as the routes leave it, and the socket events *)
(* of its members                                                          *)

\* the private room "1000" of host u1 after n - 1 joins
WaitingRoom(maxPlayers, n) ==
    LET r == NewRoom("1000", "u1", "Science", 2, maxPlayers, FALSE)
    IN  IF n = 1 THEN r ELSE PushPlayer(r, "u2")

InitSession ==
    /\ \E maxPlayers \in MaxPlayersInputs, n \in 1..2 :
          /\ n <= maxPlayers
          /\ rooms = <<WaitingRoom(maxPlayers, n)>>
    /\ games = <<>>
    /\ handlers = [h \in Handlers |-> Idle]
    /\ sent = <<>>
    /\ last = NoReturn
    /\ received = 0

NextSession ==
    \/ \E h \in Handlers, uid \in Members, code \in Codes, isReady \in BOOLEAN :
          PlayerReadyFind(h, uid, code, isReady)
    \/ \E h \in Handlers : PlayerReadySave(h)
    \/ \E h \in Handlers, uid \in Members, code \in Codes : StartGameFind(h, uid, code)
    \/ \E h \in Handlers, supply \in 0..MaxSupply : StartGameInsert(h, supply)
    \/ \E h \in Handlers : StartGameFail(h)
    \/ \E h \in Handlers : StartGameSaveStatus(h)
    \/ SubmitAnswerInSession
    \/ \E h \in Handlers : SubmitAnswerSave(h)
    \/ \E h \in Handlers : SubmitAnswerSaveNext(h)
    \/ \E h \in Handlers : SubmitAnswerSaveEnd(h)
    \/ \E h \in Handlers : SubmitAnswerFindRoom(h)
    \/ \E h \in Handlers : SubmitAnswerSaveRoom(h)

SpecSession == InitSession /\ [][NextSession]_vars

---------------------------------------------------------------------------
(* A room before and while it is started: the private room "1000" as its   *)
(* host u1 created it, joins by code, and the playerReady and startGame    *)
(* events of its members                                                   *)

InitRoom ==
    /\ \E maxPlayers \in MaxPlayersInputs :
          rooms = <<NewRoom("1000", "u1", "Science", 2, maxPlayers, FALSE)>>
    /\ games = <<>>
    /\ handlers = [h \in Handlers |-> Idle]
    /\ sent = <<>>
    /\ last = NoReturn
    /\ received = 0

NextRoom ==
    \/ \E h \in Handlers, uid \in Members, code \in Codes : JoinFind(h, uid, code)
    \/ \E h \in Handlers : JoinSave(h)
    \/ \E h \in Handlers, uid \in Members, code \in Codes, isReady \in BOOLEAN :
          PlayerReadyFind(h, uid, code, isReady)
    \/ \E h \in Handlers : PlayerReadySave(h)
    \/ \E h \in Handlers, uid \in Members, code \in Codes : StartGameFind(h, uid, code)
    \/ \E h \in Handlers, supply \in {MaxSupply} : StartGameInsert(h, supply)
    \/ \E h \in Handlers : StartGameFail(h)
    \/ \E h \in Handlers : StartGameSaveStatus(h)

SpecRoom == InitRoom /\ [][NextRoom]_vars

---------------------------------------------------------------------------
(* A started game: the state startGame leaves behind for a room of one or  *)
(* two players, and the submitAnswer handlers running against it           *)

StartedRoom(n) ==
    LET r == NewRoom("1000", "u1", "Science", MaxQuestions, 2, FALSE)
    IN  [r EXCEPT !.status = "in-progress",
                  !.players = IF n = 1 THEN <<[NewPlayer("u1") EXCEPT !.ready = TRUE]>>
                              ELSE <<[NewPlayer("u1") EXCEPT !.ready = TRUE],
                                     [NewPlayer("u2") EXCEPT !.ready = TRUE]>>,
                  !.v = n - 1]

InitGame ==
    /\ \E n \in 1..2, q \in 1..MaxQuestions :
         /\ rooms = <<StartedRoom(n)>>
         /\ games = <<NewGame(StartedRoom(n), fetchQuestions(MaxQuestions, q))>>
    /\ handlers = [h \in Handlers |-> Idle]
    /\ sent = <<>>
    /\ last = NoReturn
    /\ received = 0

NextGame ==
    \/ SubmitAnswer
    \/ \E h \in Handlers : SubmitAnswerSave(h)
    \/ \E h \in Handlers : SubmitAnswerSaveNext(h)
    \/ \E h \in Handlers : SubmitAnswerSaveEnd(h)
    \/ \E h \in Handlers : SubmitAnswerFindRoom(h)
    \/ \E h \in Handlers : SubmitAnswerSaveRoom(h)

SpecGame == InitGame /\ [][NextGame]_vars

\* the same game with the events of its members alone
NextEnding ==
    \/ SubmitAnswerByMember
    \/ \E h \in Handlers : SubmitAnswerSave(h)
    \/ \E h \in Handlers : SubmitAnswerSaveNext(h)
    \/ \E h \in Handlers : SubmitAnswerSaveEnd(h)
    \/ \E h \in Handlers : SubmitAnswerFindRoom(h)
    \/ \E h \in Handlers : SubmitAnswerSaveRoom(h)

SpecEnding == InitGame /\ [][NextEnding]_vars

---------------------------------------------------------------------------
(* Scoring: a started one-player game of MaxSupply questions, and answers   *)
(* with any timeTaken                                                      *)

InitScoring ==
    /\ rooms = <<StartedRoom(1)>>
    /\ games = <<NewGame(StartedRoom(1), fetchQuestions(MaxSupply, MaxSupply))>>
    /\ handlers = [h \in Handlers |-> Idle]
    /\ sent = <<>>
    /\ last = NoReturn
    /\ received = 0

NextScoring ==
    \/ SubmitAnswerTimed
    \/ \E h \in Handlers : SubmitAnswerSave(h)
    \/ \E h \in Handlers : SubmitAnswerSaveNext(h)
    \/ \E h \in Handlers : SubmitAnswerSaveEnd(h)
    \/ \E h \in Handlers : SubmitAnswerFindRoom(h)
    \/ \E h \in Handlers : SubmitAnswerSaveRoom(h)

SpecScoring == InitScoring /\ [][NextScoring]_vars

---------------------------------------------------------------------------
(* Completion: a started two-player game of MaxSupply questions; each      *)
(* player answers each question once; every event is eventually delivered  *)
(* and every store operation eventually resolves                           *)

InitCompletion ==
    /\ rooms = <<StartedRoom(2)>>
    /\ games = <<NewGame(StartedRoom(2), fetchQuestions(MaxSupply, MaxSupply))>>
    /\ handlers = [h \in Handlers |-> Idle]
    /\ sent = <<>>
    /\ last = NoReturn
    /\ received = {}

NextCompletion ==
    \/ SubmitAnswerOnce
    \/ \E h \in Handlers : SubmitAnswerSave(h)
    \/ \E h \in Handlers : SubmitAnswerSaveNext(h)
    \/ \E h \in Handlers : SubmitAnswerSaveEnd(h)
    \/ \E h \in Handlers : SubmitAnswerFindRoom(h)
    \/ \E h \in Handlers : SubmitAnswerSaveRoom(h)

SpecCompletion ==
    /\ InitCompletion
    /\ [][NextCompletion]_vars
    /\ WF_vars(SubmitAnswerOnce)
    /\ \A h \in Handlers : WF_vars(SubmitAnswerStep(h))

---------------------------------------------------------------------------
(* Properties of answer submission *)

\* game holds an answer record of player uid for question index q
HasRecord(game, uid, q) ==
    \E i \in DOMAIN game.scores :
        /\ game.scores[i].playerId = uid
        /\ \E j \in DOMAIN game.scores[i].answers :
              game.scores[i].answers[j].questionIndex = q

\* the number of answer records of score entry e for question index q
RecordCount(e, q) == Cardinality({j \in DOMAIN e.answers : e.answers[j].questionIndex = q})

AllIdle == \A h \in Handlers : handlers[h] = Idle

C4_BarrierCorrectness ==
    [][ \A g \in DOMAIN games :
            (g \in DOMAIN games' /\ games'[g].currentQuestion = games[g].currentQuestion + 1)
            => \A i \in DOMAIN games'[g].scores :
                   RecordCount(games'[g].scores[i], games[g].currentQuestion) = 1 ]_vars

\* C5 (monotonic advancement), as claimed: from one stored state to the next
\* currentQuestion stays or grows by exactly 1.
C5_MonotonicAdvancement ==
    [][ \A g \in DOMAIN games :
            /\ g \in DOMAIN games'
            /\ \/ games'[g].currentQuestion = games[g].currentQuestion
               \/ games'[g].currentQuestion = games[g].currentQuestion + 1 ]_vars

\* C6 (score monotonicity).  From one stored state to the next no score
\* entry's score decreases, and no score entry changes its player.
C6_ScoreMonotonic ==
    [][ \A g \in DOMAIN games :
            /\ g \in DOMAIN games'
            /\ DOMAIN games'[g].scores = DOMAIN games[g].scores
            /\ \A i \in DOMAIN games[g].scores :
                  /\ games'[g].scores[i].playerId = games[g].scores[i].playerId
                  /\ games'[g].scores[i].score >= games[g].scores[i].score ]_vars

\* two handlers of one player for different question indices both loaded the
\* game before either saved; one has saved a correct answer, and the other
\* is about to save a document whose score for the player is the lower one
\* it computed from the old state
C6_Witness ==
    \E h \in Handlers :
        /\ handlers[h].kind = "submitAnswer"
        /\ handlers[h].pc = "saveAnswer"
        /\ LET hd == handlers[h]
               si == ScoreIndex(hd.game, hd.user)
               stored == games[hd.gid]
           IN  /\ stored.v > hd.game.v
               /\ ~HasRecord(stored, hd.user, hd.qi)
               /\ hd.game.scores[si].score > 0
               /\ hd.game.scores[si].score < stored.scores[si].score

\* the handler has had the barrier pass on the last question: it is saving
\* endedAt or is past that save
Ending(h) == handlers[h].pc \in {"saveEnd", "findRoom", "saveRoom"}

C15_EventuallyEnded ==
    <>( /\ \A g \in DOMAIN games : games[g].endedAt
        /\ \A r \in DOMAIN rooms : rooms[r].status = "completed"
        /\ \E i \in DOMAIN sent : sent[i].name = "gameEnded" )

---------------------------------------------------------------------------
(* Properties of rooms and sessions *)

\* C3 (capacity invariant), as claimed: no room ever holds more players than
\* its maxPlayers.
C3_Capacity ==
    \A r \in DOMAIN rooms : Len(rooms[r].players) <= rooms[r].maxPlayers

\* C20 (answers only for reached questions), as claimed: every stored answer
\* record has a question index within the game's questions and not beyond
\* the game's currentQuestion.
C20_AnswersForReached ==
    \A g \in DOMAIN games : \A i \in DOMAIN games[g].scores :
        \A j \in DOMAIN games[g].scores[i].answers :
            LET q == games[g].scores[i].answers[j].questionIndex
            IN  /\ 0 <= q
                /\ q <= Len(games[g].questions) - 1
                /\ q <= games[g].currentQuestion

\* C16 (player uniqueness), as claimed: no two entries of a room's players
\* list carry the same id.
C16_UniquePlayers ==
    \A r \in DOMAIN rooms : \A i, j \in DOMAIN rooms[r].players :
        rooms[r].players[i].id = rooms[r].players[j].id => i = j

\* a handler is between the resolution of its first read and its last write
InFlight(h) == handlers[h].pc # "idle"

\* C7 (per-room serialization), as claimed: no two handlers for the same room
\* code are in flight at the same time.
C7_PerRoomSerialization ==
    \A h1, h2 \in Handlers :
        (h1 # h2 /\ InFlight(h1) /\ InFlight(h2)) => handlers[h1].code # handlers[h2].code

\* C8 (room lifecycle), as claimed: a room never goes from in-progress back
\* to waiting, and never leaves completed.
C8_NoStatusRegression ==
    [][ \A r \in DOMAIN rooms :
            /\ r \in DOMAIN rooms'
            /\ rooms[r].status = "completed" => rooms'[r].status = "completed"
            /\ rooms[r].status = "in-progress" => rooms'[r].status # "waiting" ]_vars

\* C9 (quick-match race), as claimed: a quick match that joins an existing
\* room becomes the second player of that room, so that of two racing quick
\* matches only one is added to it.
C9_QuickMatchSecondPlayer ==
    [][ \A h \in Handlers :
            ( /\ handlers[h].kind = "quickMatch"
              /\ handlers[h].pc = "saveJoin"
              /\ handlers'[h] = Idle )
            => /\ Len(rooms'[handlers[h].rid].players) = 2
               /\ rooms'[handlers[h].rid].players[2].id = handlers[h].user ]_vars

\* C10 (one Game per Room), as claimed: no two games carry the same room code.
C10_OneGamePerRoom ==
    \A g1, g2 \in DOMAIN games : games[g1].roomCode = games[g2].roomCode => g1 = g2

---------------------------------------------------------------------------
(* Properties of join by code *)

\* an event of the given name is among what the step just taken emitted
Emitted(name) == \E i \in DOMAIN sent : sent[i].name = name

\* no room carries the code
UnknownCode(code) == \A r \in DOMAIN rooms : rooms[r].code # code

\* the first room that carries the code (the one the route loads)
RoomOf(code) == CHOOSE r \in DOMAIN rooms :
                    /\ rooms[r].code = code
                    /\ \A q \in DOMAIN rooms : rooms[q].code = code => r <= q

\* the step answers the join with the refusal and nothing else: no room
\* changes, no handler is left running, and no roomUpdated goes out
JoinRefused(status, error) ==
    /\ sent' = <<Response("join", status, error)>>
    /\ UNCHANGED <<rooms, games, handlers>>

\* C11 (join-by-code error outcomes), with the order of the tests made
\* explicit.  A join for a code no room carries is answered 404 "Room not
\* found"; a join on a room that holds maxPlayers players or more is answered
\* 400 "Room is full", whatever its status; a join on a room that is not full
\* and whose status is not waiting is answered 400 "Game has already
\* started".  In each case no room changes and no roomUpdated is emitted.
C11_JoinErrors ==
    [][ \A h \in Handlers, uid \in Users, code \in Codes :
            JoinFind(h, uid, code) =>
                IF UnknownCode(code) THEN JoinRefused(404, "Room not found")
                ELSE LET room == rooms[RoomOf(code)]
                     IN  /\ Len(room.players) >= room.maxPlayers
                               => JoinRefused(400, "Room is full")
                         /\ ( /\ Len(room.players) < room.maxPlayers
                              /\ room.status # "waiting" )
                               => JoinRefused(400, "Game has already started") ]_vars

\* a join has just been refused because the game has started
C11_Witness ==
    /\ sent = <<Response("join", 400, "Game has already started")>>
    /\ \E r \in DOMAIN rooms :
          /\ rooms[r].status # "waiting"
          /\ Len(rooms[r].players) < rooms[r].maxPlayers

\* C11 as claimed: every join on a room whose status is not waiting is
\* answered "Game has already started", a full room included.
C11_AlreadyStartedAlways ==
    [][ \A h \in Handlers, uid \in Users, code \in Codes :
            ( /\ JoinFind(h, uid, code)
              /\ ~UnknownCode(code)
              /\ rooms[RoomOf(code)].status # "waiting" )
            => JoinRefused(400, "Game has already started") ]_vars

---------------------------------------------------------------------------
(* Properties of starting a game *)

\* C12 (start failure on insufficient questions), as claimed, in its
\* equivalent form: every stored game has exactly as many questions as the
\* quizCount of its room.
C12_ExactlyQuizCount ==
    \A g \in DOMAIN games : \A r \in DOMAIN rooms :
        rooms[r].code = games[g].roomCode
        => Len(games[g].questions) = rooms[r].quizCount

---------------------------------------------------------------------------
(* Properties of scoring *)

\* C13 (score delta bounds), as claimed: whatever the timeTaken, a stored
\* score grows in one step by 0 or by between 100 and 200 points.
C13_ScoreDeltaBounds ==
    [][ \A g \in DOMAIN games : \A i \in DOMAIN games[g].scores :
            LET d == games'[g].scores[i].score - games[g].scores[i].score
            IN  d = 0 \/ (100 <= d /\ d <= 200) ]_vars

\* C17 (start authority), as claimed: for a room whose stored players list
\* has two or more players, the step that inserts a Game and the step that
\* sets the status to in-progress are taken only by the handler of a
\* startGame event sent by the room's host, never by a playerReady handler.
C17_StartAuthority ==
    [][ \A h \in Handlers :
            ( /\ \/ handlers[h].pc = "startGame" /\ Len(games') > Len(games)
                 \/ handlers[h].pc = "saveStatus" /\ rooms' # rooms
              /\ handlers'[h] # handlers[h]
              /\ Len(rooms[handlers[h].rid].players) >= 2 )
            => /\ handlers[h].kind = "startGame"
               /\ handlers[h].user = rooms[handlers[h].rid].host ]_vars

\* C19 (score-entry membership), as claimed: whenever a room is in-progress,
\* the playerIds of the scores of its game are the ids of the room's stored
\* players list.
C19_ScoresArePlayers ==
    \A r \in DOMAIN rooms :
        rooms[r].status = "in-progress" =>
            /\ GameFindOne(rooms[r].code) # 0
            /\ LET game == games[GameFindOne(rooms[r].code)]
               IN  {game.scores[i].playerId : i \in DOMAIN game.scores}
                   = {rooms[r].players[i].id : i \in DOMAIN rooms[r].players}

\* C18 (no answer leak), as claimed: the question carried by every
\* gameStarted and nextQuestion event has no correctAnswer field.
C18_NoAnswerLeak ==
    \A i \in DOMAIN sent :
        sent[i].name \in {"gameStarted", "nextQuestion"}
        => "correctAnswer" \notin DOMAIN sent[i].question

=============================================================================
